---- MODULE Spec2Model ----
(***************************************************************************)
(* Model of src/api/nvd_api.py: the NVD client (NvdApi), the CVE record    *)
(* (Cve) and the result list (CveResultList).                              *)
(*                                                                         *)
(* Dates are integers (whole days for the search interval, whole minutes   *)
(* for a published date), identifiers are the integers 1..MaxId standing   *)
(* for "CVE-1", "CVE-2", ...  A Cve carries cve_id, published_date and     *)
(* severity; last_modified_date is read by no operation of the module and  *)
(* is left out.                                                            *)
(***************************************************************************)
EXTENDS Integers, Sequences, FiniteSets, TLC

VARIABLES
    api_key,      \* NvdApi.api_key
    clock,        \* wall clock of the rate limiter, seconds
    calls,        \* the rate limiter's acquisitions still inside its period
    gets,         \* times of the requests.get calls still inside the period
    env,          \* what surrounds the client: which bodies upstream serves,
                  \* the start_date arguments, the values of now
    spc,          \* position of the client call: idle, querying, done, failed
    s_op,         \* the call in progress: none, search, lookup
    s_args,       \* search_by_name_and_date: <<start_date, now>>
    s_ranges,     \* search_by_name_and_date: ranges
    s_data,       \* search_by_id: data, <<the decoded body>>, <<>> without one
    s_http,       \* response.ok of every request of the call, in order
    s_results,    \* search_by_name_and_date: results (record list per range)
    s_ret,        \* <<the results of the CveResultList returned>>, <<>> when
                  \* the call has returned nothing
    s_err,        \* exception that left the call, None when none did
    heap,         \* the Python list objects: list id -> records
    objs,         \* the CveResultList objects: object id -> id of .results
    apc,          \* position of CveResultList.add: idle, loop, done
    a_first,      \* add: first
    a_other,      \* add: other
    a_i,          \* add: elements of other.results the for loop has taken
    heap0,        \* the lists as they were when add was called
    a_ret,        \* add: the object returned
    q             \* outcome of the last get_latest / get_max_severity

vars == <<api_key, clock, calls, gets, env, spc, s_op, s_args, s_ranges,
          s_data, s_http, s_results, s_ret, s_err, heap, objs, apc, a_first, a_other, a_i,
          heap0, a_ret, q>>

clientVars == <<api_key, clock, calls, gets, env, spc, s_op, s_args,
                s_ranges, s_data, s_http, s_results, s_ret, s_err>>
callVars == <<spc, s_op, s_args, s_ranges, s_data, s_http, s_results, s_ret,
              s_err>>
listVars == <<heap, objs, apc, a_first, a_other, a_i, heap0, a_ret, q>>

None == "None"

(***************************************************************************)
(* Bounds of the model.                                                    *)
(***************************************************************************)
MaxDay == 250        \* start_date and now range over the days 0..MaxDay
MaxId == 2           \* identifiers CVE-1 .. CVE-MaxId
MaxItems == 2        \* items in one response body
MaxListLen == 4      \* a list longer than this is not extended further
MaxObjs == 4         \* CveResultList objects alive in the list model
MaxInitLen == 2      \* records of a list the list model starts with
MaxQueryLen == 3     \* records of the list the query operations are run on
MaxPub == 2          \* published dates 1..MaxPub
TickStep == 30       \* seconds the clock advances in one step
MaxClock == 60       \* the clock stops advancing here

(***************************************************************************)
(* Program constants.                                                      *)
(***************************************************************************)
period == 60                                         \* NvdApi.__init__
max_delta == 120                                     \* timedelta(days=120)

Severities == {"UNKNOWN", "LOW", "MEDIUM", "HIGH", "CRITICAL"}

RECURSIVE SeqsUpTo(_, _)
SeqsUpTo(S, n) ==
    IF n = 0 THEN {<<>>}
    ELSE LET shorter == SeqsUpTo(S, n - 1)
         IN  shorter \cup {Append(s, x) : s \in {t \in shorter : Len(t) = n - 1}, x \in S}

(***************************************************************************)
(* Python values of different types never compare equal: a str is not a    *)
(* tuple.  Values that meet in a comparison carry their type.              *)
(***************************************************************************)
Str(s) == [type |-> "str", v |-> s]
Tup(a, b) == [type |-> "tuple", v |-> <<a, b>>]
PyEq(a, b) == a.type = b.type /\ a.v = b.v
PyIn(x, list) == \E i \in DOMAIN list : PyEq(x, list[i])

(***************************************************************************)
(* class Cve                                                               *)
(***************************************************************************)
Cve(cve_id, published_date, severity) ==
    [cve_id |-> cve_id, published_date |-> published_date, severity |-> severity]

\* Cve.get_url(check_is_up=False): the prefix followed by the identifier
get_url(cve) == <<"https://nvd.nist.gov/vuln/detail/", cve.cve_id>>

\* Cve.result_to_cve: impact == {} gives UNKNOWN, else baseMetricV2.severity
result_to_cve(result_json) ==
    Cve(result_json.ID, result_json.publishedDate,
        IF result_json.impact = "EMPTY" THEN "UNKNOWN" ELSE result_json.impact)

(***************************************************************************)
(* NvdApi.search_by_name_and_date, lines 44-54: the date ranges.           *)
(***************************************************************************)
RECURSIVE ranges_loop(_, _, _)
ranges_loop(curr_date, now, ranges) ==
    IF now - curr_date > max_delta
    THEN ranges_loop(curr_date + max_delta, now,
                     Append(ranges, <<curr_date, curr_date + max_delta>>))
    ELSE Append(ranges, <<curr_date, now>>)

\* the same loop with the last range taken from start_date instead of curr_date
build_ranges_from_start(start_date, now) ==
    LET r == ranges_loop(start_date, now, <<>>)
    IN  [r EXCEPT ![Len(r)] = <<start_date, now>>]

build_ranges(start_date, now) == ranges_loop(start_date, now, <<>>)

(***************************************************************************)
(* class CveResultList                                                     *)
(***************************************************************************)
Return(v) == [kind |-> "return", value |-> v]
Raise(e) == [kind |-> "raise", value |-> e]

\* CveResultList._parse_json: one Cve per item of result.CVE_Items, in order
parse_json(json_result) ==
    [i \in 1..Len(json_result.CVE_Items) |-> result_to_cve(json_result.CVE_Items[i])]

\* CveResultList.get_cve_id_list: a list of tuples (cve_id, url or None)
get_cve_id_list(results, make_urls) ==
    [i \in 1..Len(results) |->
        Tup(Str(results[i].cve_id), IF make_urls THEN get_url(results[i]) ELSE None)]

\* CveResultList._severity_ranking with the ranks of HIGH and CRITICAL exchanged
severity_ranking_swapped(cve) ==
    CASE cve.severity = "UNKNOWN" -> -1
      [] cve.severity = "LOW" -> 0
      [] cve.severity = "MEDIUM" -> 1
      [] cve.severity = "HIGH" -> 3
      [] cve.severity = "CRITICAL" -> 2

\* CveResultList._severity_ranking
severity_ranking(cve) ==
    CASE cve.severity = "UNKNOWN" -> -1
      [] cve.severity = "LOW" -> 0
      [] cve.severity = "MEDIUM" -> 1
      [] cve.severity = "HIGH" -> 2
      [] cve.severity = "CRITICAL" -> 3

\* Python's max(iterable, key=...): the scan keeps the first of the greatest
RECURSIVE max_scan(_, _, _)
max_scan(keys, i, best) ==
    IF i > Len(keys) THEN best
    ELSE max_scan(keys, i + 1, IF keys[i] > keys[best] THEN i ELSE best)

py_max(items, keys) ==
    IF Len(items) = 0 THEN Raise("ValueError")
    ELSE Return(items[max_scan(keys, 2, 1)])

\* CveResultList.get_latest: __init__ leaves a list in self.results on both of
\* its paths, so the test "is not None" passes and max runs on any list
get_latest(results) ==
    py_max(results, [i \in 1..Len(results) |-> results[i].published_date])

\* CveResultList.get_max_severity
get_max_severity(results) ==
    IF Len(results) = 0 THEN Return(None)
    ELSE Return(py_max(results,
                       [i \in 1..Len(results) |-> severity_ranking(results[i])]).value.severity)

(***************************************************************************)
(* CveResultList.add(first, other).  merged_results is first.results, the  *)
(* list object itself, so every append lands in first's list; h maps list  *)
(* ids to their contents, f and o are the list ids of first.results and    *)
(* other.results.                                                          *)
(***************************************************************************)
\* one pass of the for loop, for the element o.results[i]
add_step(h, f, o, i) ==
    LET cve == h[o][i]
    IN  IF ~PyIn(Str(cve.cve_id), get_cve_id_list(h[f], FALSE))
        THEN [h EXCEPT ![f] = Append(@, cve)]
        ELSE h

\* the for loop from position i on; ends when the iterator is exhausted
RECURSIVE add_run(_, _, _, _)
add_run(h, f, o, i) ==
    IF i >= Len(h[o]) THEN h
    ELSE add_run(add_step(h, f, o, i + 1), f, o, i + 1)

\* functools.reduce(CveResultList.add, results, CveResultList([])): the seed's
\* list is list 1 and stays the accumulator's list, each element of results
\* is a list of its own
RECURSIVE reduce_add(_, _, _)
reduce_add(results, acc, k) ==
    IF k > Len(results) THEN acc
    ELSE reduce_add(results, add_run(<<acc, results[k]>>, 1, 2, 0)[1], k + 1)

(***************************************************************************)
(* What upstream may answer.                                               *)
(***************************************************************************)
Impacts == {"EMPTY", "HIGH"}
Items == [ID : 1..MaxId, publishedDate : {1}, impact : Impacts]
DistinctIds(items) ==
    \A i, j \in DOMAIN items : i # j => items[i].ID # items[j].ID
ItemLists == {l \in SeqsUpTo(Items, MaxItems) : DistinctIds(l)}
Messages == {None, "Unable to find vuln", "Rate limited"}
\* bodies of .../rest/json/cve/1.0/<id>
CveBodies == [message : Messages, totalResults : 0..1,
              CVE_Items : {l \in ItemLists : Len(l) <= 1}]
\* bodies of .../rest/json/cves/1.0
CvesBodies == {[message |-> None, totalResults |-> Len(l), CVE_Items |-> l] : l \in ItemLists}
EmptyBody == [message |-> None, totalResults |-> 0, CVE_Items |-> <<>>]

(***************************************************************************)
(* class NvdApi                                                            *)
(***************************************************************************)
\* NvdApi.__init__ with the two budgets exchanged
max_calls_swapped(key) == IF key # None THEN 10 ELSE 100

\* NvdApi.__init__: self.max_calls
max_calls(key) == IF key # None THEN 100 ELSE 10

\* the times of a list that lie less than one period before now
in_period(times, now) == SelectSeq(times, LAMBDA t : now - t < period)

\* RateLimiter(max_calls, period): entering blocks until fewer than max_calls
\* acquisitions lie inside the running period
gate_open == Len(in_period(calls, clock)) < max_calls(api_key)

\* the bodies upstream serves: any well-formed body, only the empty result,
\* or nothing at all
served_cve ==
    CASE env.upstream = "any" -> CveBodies
      [] env.upstream = "empty" -> {EmptyBody}
      [] env.upstream = "none" -> {}

served_cves ==
    CASE env.upstream = "any" -> CvesBodies
      [] env.upstream = "empty" -> {EmptyBody}
      [] env.upstream = "none" -> {}

\* NvdApi._perform_request when the body is decoded whatever response.ok says
perform_request_unchecked(ok, body) == Return(body)

\* NvdApi._perform_request, lines 70-73: the outcome of a response
perform_request(ok, body) == IF ok THEN Return(body) ELSE Raise("APIError")

\* NvdApi._perform_request, lines 68-69: enter the rate limiter, then requests.get
http_get(ok) ==
    /\ gate_open
    /\ calls' = Append(in_period(calls, clock), clock)
    /\ gets' = Append(in_period(gets, clock), clock)
    /\ s_http' = Append(s_http, ok)

\* NvdApi.search_by_id, lines 32-35: data['message'] is a str and a str has no
\* method contains, so a body with a message field raises AttributeError
search_by_id_data(data) ==
    IF data.message # None THEN Raise("AttributeError")
    ELSE IF data.totalResults = 0 THEN Raise("APIError")
    ELSE Return(parse_json(data))

\* NvdApi.search_by_id
search_by_id ==
    /\ spc = "idle"
    /\ \E ok \in BOOLEAN, body \in served_cve :
         LET out == perform_request(ok, body)
             res == IF out.kind = "raise" THEN out ELSE search_by_id_data(out.value)
         IN  /\ http_get(ok)
             /\ s_op' = "lookup"
             /\ s_data' = IF out.kind = "raise" THEN <<>> ELSE <<out.value>>
             /\ spc' = IF res.kind = "raise" THEN "failed" ELSE "done"
             /\ s_err' = IF res.kind = "raise" THEN res.value ELSE None
             /\ s_ret' = IF res.kind = "raise" THEN <<>> ELSE <<res.value>>
    /\ UNCHANGED <<api_key, clock, env, s_args, s_ranges, s_results>>
    /\ UNCHANGED listVars

\* NvdApi.search_by_name_and_date, lines 44-57: now is read, the ranges built
search_by_name_and_date ==
    /\ spc = "idle"
    /\ \E start_date \in env.starts, now \in env.nows :
         /\ s_args' = <<start_date, now>>
         /\ s_ranges' = build_ranges(start_date, now)
    /\ spc' = "querying"
    /\ s_op' = "search"
    /\ s_results' = <<>>
    /\ UNCHANGED <<api_key, clock, calls, gets, env, s_data, s_http, s_ret, s_err>>
    /\ UNCHANGED listVars

\* NvdApi.search_by_name_and_date, lines 58-62: the request of the next range;
\* an exception leaves the method, the last result is followed by the reduce
name_date_query ==
    /\ spc = "querying"
    /\ \E ok \in BOOLEAN, body \in served_cves :
         LET out == perform_request(ok, body)
             rs == Append(s_results, parse_json(out.value))
         IN  /\ http_get(ok)
             /\ IF out.kind = "raise"
                THEN /\ spc' = "failed"
                     /\ s_err' = out.value
                     /\ UNCHANGED <<s_results, s_ret>>
                ELSE /\ s_results' = rs
                     /\ s_err' = None
                     /\ IF Len(rs) = Len(s_ranges)
                        THEN spc' = "done" /\ s_ret' = <<reduce_add(rs, <<>>, 1)>>
                        ELSE spc' = "querying" /\ s_ret' = <<>>
    /\ UNCHANGED <<api_key, clock, env, s_op, s_args, s_ranges, s_data>>
    /\ UNCHANGED listVars

\* the caller, after a call has returned or raised, is ready for the next one
next_call ==
    /\ spc \in {"done", "failed"}
    /\ spc' = "idle"
    /\ s_op' = "none"
    /\ s_args' = <<>>
    /\ s_ranges' = <<>>
    /\ s_data' = <<>>
    /\ s_http' = <<>>
    /\ s_results' = <<>>
    /\ s_ret' = <<>>
    /\ s_err' = None
    /\ UNCHANGED <<api_key, clock, calls, gets, env>>
    /\ UNCHANGED listVars

\* time passes; acquisitions and requests older than one period drop out
Tick ==
    /\ clock < MaxClock
    /\ clock' = clock + TickStep
    /\ calls' = in_period(calls, clock')
    /\ gets' = in_period(gets, clock')
    /\ UNCHANGED <<api_key, env>>
    /\ UNCHANGED callVars
    /\ UNCHANGED listVars

InitCall ==
    /\ spc = "idle"
    /\ s_op = "none"
    /\ s_args = <<>>
    /\ s_ranges = <<>>
    /\ s_data = <<>>
    /\ s_http = <<>>
    /\ s_results = <<>>
    /\ s_ret = <<>>
    /\ s_err = None

InitGate ==
    /\ clock = 0
    /\ calls = <<>>
    /\ gets = <<>>

InitNoLists ==
    /\ heap = <<>>
    /\ objs = <<>>
    /\ apc = "idle"
    /\ a_first = 0
    /\ a_other = 0
    /\ a_i = 0
    /\ heap0 = <<>>
    /\ a_ret = 0
    /\ q = [op |-> "none", out |-> Return(None)]

\* one call on a client: a lookup, or a search over one, two or three ranges
Init ==
    /\ api_key \in {None, "KEY"}
    /\ env = [upstream |-> "any",
              starts |-> {0, max_delta, 2 * max_delta},
              nows |-> {2 * max_delta + 1}]
    /\ InitGate
    /\ InitCall
    /\ InitNoLists

Next == search_by_id \/ search_by_name_and_date \/ name_date_query

Spec == Init /\ [][Next]_vars

\* the ranges of every start_date and now of 0..MaxDay
InitChunk ==
    /\ api_key = None
    /\ env = [upstream |-> "none", starts |-> 0..MaxDay, nows |-> 0..MaxDay]
    /\ InitGate
    /\ InitCall
    /\ InitNoLists

NextChunk == search_by_name_and_date

SpecChunk == InitChunk /\ [][NextChunk]_vars

\* call after call on one client while time passes
InitRate ==
    /\ api_key \in {None, "KEY"}
    /\ env = [upstream |-> "empty",
              starts |-> {0, max_delta},
              nows |-> {max_delta + 1}]
    /\ InitGate
    /\ InitCall
    /\ InitNoLists

NextRate == search_by_id \/ search_by_name_and_date \/ name_date_query
            \/ next_call \/ Tick

SpecRate == InitRate /\ [][NextRate]_vars

(***************************************************************************)
(* CveResultList.add on objects.  add_call enters the method, add_iter is  *)
(* one pass of its for loop, add_return the return statement.  The loop    *)
(* reads other.results through a list iterator, which ends when its        *)
(* position reaches the length the list has at that moment.                *)
(***************************************************************************)
add_call ==
    /\ apc \in {"idle", "done"}
    /\ Len(objs) < MaxObjs
    /\ \E first \in DOMAIN objs, other \in DOMAIN objs :
         /\ a_first' = first
         /\ a_other' = other
    /\ a_i' = 0
    /\ heap0' = heap
    /\ a_ret' = 0
    /\ apc' = "loop"
    /\ UNCHANGED <<heap, objs, q>>
    /\ UNCHANGED clientVars

add_iter ==
    /\ apc = "loop"
    /\ a_i < Len(heap[objs[a_other]])
    /\ Len(heap[objs[a_first]]) < MaxListLen
    /\ heap' = add_step(heap, objs[a_first], objs[a_other], a_i + 1)
    /\ a_i' = a_i + 1
    /\ UNCHANGED <<objs, apc, a_first, a_other, heap0, a_ret, q>>
    /\ UNCHANGED clientVars

\* return CveResultList(merged_results): __init__ keeps the list it is given
add_return ==
    /\ apc = "loop"
    /\ a_i >= Len(heap[objs[a_other]])
    /\ objs' = Append(objs, objs[a_first])
    /\ a_ret' = Len(objs) + 1
    /\ apc' = "done"
    /\ UNCHANGED <<heap, a_first, a_other, a_i, heap0, q>>
    /\ UNCHANGED clientVars

UnionRecords == {Cve(id, 1, sev) : id \in 1..MaxId, sev \in {"LOW", "HIGH"}}

\* two result lists of up to MaxInitLen records each
InitUnion ==
    /\ \E A \in SeqsUpTo(UnionRecords, MaxInitLen), B \in SeqsUpTo(UnionRecords, MaxInitLen) :
         heap = <<A, B>>
    /\ objs = <<1, 2>>
    /\ apc = "idle"
    /\ a_first = 0
    /\ a_other = 0
    /\ a_i = 0
    /\ heap0 = <<>>
    /\ a_ret = 0
    /\ q = [op |-> "none", out |-> Return(None)]
    /\ api_key = None
    /\ env = [upstream |-> "none", starts |-> {}, nows |-> {}]
    /\ InitGate
    /\ InitCall

NextUnion == add_call \/ add_iter \/ add_return

SpecUnion == InitUnion /\ [][NextUnion]_vars

(***************************************************************************)
(* The query operations on one result list.                                *)
(***************************************************************************)
query_latest ==
    /\ q' = [op |-> "get_latest", out |-> get_latest(heap[objs[1]])]
    /\ UNCHANGED <<heap, objs, apc, a_first, a_other, a_i, heap0, a_ret>>
    /\ UNCHANGED clientVars

query_max_severity ==
    /\ q' = [op |-> "get_max_severity", out |-> get_max_severity(heap[objs[1]])]
    /\ UNCHANGED <<heap, objs, apc, a_first, a_other, a_i, heap0, a_ret>>
    /\ UNCHANGED clientVars

\* the lists of up to MaxQueryLen records; the record at position i is CVE-i
QueryLists ==
    UNION {[1..n -> [cve_id : {0}, published_date : 1..MaxPub, severity : Severities]]
           : n \in 0..MaxQueryLen}

InitQuery ==
    /\ \E l \in QueryLists :
         heap = <<[i \in DOMAIN l |-> [l[i] EXCEPT !.cve_id = i]]>>
    /\ objs = <<1>>
    /\ apc = "idle"
    /\ a_first = 0
    /\ a_other = 0
    /\ a_i = 0
    /\ heap0 = <<>>
    /\ a_ret = 0
    /\ q = [op |-> "none", out |-> Return(None)]
    /\ api_key = None
    /\ env = [upstream |-> "none", starts |-> {}, nows |-> {}]
    /\ InitGate
    /\ InitCall

NextQuery == query_latest \/ query_max_severity

SpecQuery == InitQuery /\ [][NextQuery]_vars

(***************************************************************************)
(* The claims.                                                             *)
(***************************************************************************)
Ids(records) == {records[i].cve_id : i \in DOMAIN records}

RECURSIVE Concat(_)
Concat(lists) == IF lists = <<>> THEN <<>> ELSE Head(lists) \o Concat(Tail(lists))

\* the records of a list whose identifier no earlier record of the list carries
RECURSIVE FirstWins(_)
FirstWins(records) ==
    IF records = <<>> THEN <<>>
    ELSE LET init == SubSeq(records, 1, Len(records) - 1)
             last == records[Len(records)]
         IN  IF last.cve_id \in Ids(init) THEN FirstWins(init)
             ELSE Append(FirstWins(init), last)

DistinctCveIds(records) ==
    \A i, j \in DOMAIN records : i # j => records[i].cve_id # records[j].cve_id

A0 == heap0[objs[a_first]]
B0 == heap0[objs[a_other]]

\* C1: when add(first, other) has returned, the list of the returned object
\* is first's records as they were, in order, followed by the records of
\* other, in order, whose identifier none of first's records carries; a
\* record of other with an identifier of first but another severity is absent.
C1_UnionLeftBiased ==
    apc = "done" =>
        heap[objs[a_ret]] = A0 \o SelectSeq(B0, LAMBDA r : r.cve_id \notin Ids(A0))

\* C2: a finished search, every response of which had pairwise distinct
\* identifiers, returns a list without two records of one identifier, and the
\* record kept for an identifier is the one of the earliest range whose
\* response held it.
C2_SearchDeduplicated ==
    (spc = "done" /\ s_op = "search") =>
        /\ DistinctCveIds(s_ret[1])
        /\ s_ret[1] = FirstWins(Concat(s_results))

\* C3: for start_date < now the ranges are a consecutive partition of
\* [start_date, now): the first starts at start_date, each starts where the
\* one before it ends, none is longer than 120 days or runs backwards, and
\* the last ends at now.
C3_RangesPartition ==
    (s_op = "search" /\ s_args[1] < s_args[2]) =>
        /\ Len(s_ranges) >= 1
        /\ s_ranges[1][1] = s_args[1]
        /\ s_ranges[Len(s_ranges)][2] = s_args[2]
        /\ \A k \in 1..Len(s_ranges) - 1 : s_ranges[k + 1][1] = s_ranges[k][2]
        /\ \A k \in 1..Len(s_ranges) :
             /\ s_ranges[k][1] <= s_ranges[k][2]
             /\ s_ranges[k][2] - s_ranges[k][1] <= 120

\* a search from day 0 to day 250: two whole ranges and a shorter third
C3_Witness ==
    /\ s_op = "search"
    /\ s_args = <<0, 250>>
    /\ s_ranges = <<<<0, 120>>, <<120, 240>>, <<240, 250>>>>

\* C4: when add(first, other) has returned, first and other hold the record
\* sequences they held at the call, and the returned object's list is a list
\* of its own, shared with neither operand.
C4_UnionLeavesOperands ==
    apc = "done" =>
        /\ heap[objs[a_first]] = A0
        /\ heap[objs[a_other]] = B0
        /\ objs[a_ret] # objs[a_first]
        /\ objs[a_ret] # objs[a_other]

\* C5: add of two result lists with the same records, pairwise distinct in
\* identifier (the same object twice included), terminates, its loop taking
\* no more passes than the list has records, and returns exactly those
\* records in their order.
C5_UnionIdempotent ==
    (apc \in {"loop", "done"} /\ A0 = B0 /\ DistinctCveIds(A0)) =>
        /\ a_i <= Len(A0)
        /\ apc = "done" => heap[objs[a_ret]] = A0

\* C6: once a request of a search has met a response that is not ok, the
\* search has failed with APIError, has returned nothing, and that request is
\* the last one the search has issued.
C6_ChunkFailureAborts ==
    s_op = "search" =>
        \A k \in DOMAIN s_http :
            ~s_http[k] =>
                /\ spc = "failed"
                /\ s_err = "APIError"
                /\ k = Len(s_http)
                /\ s_ret = <<>>

\* a search of three ranges that failed on its second request
C6_Witness ==
    /\ s_op = "search"
    /\ spc = "failed"
    /\ Len(s_ranges) = 3
    /\ s_http = <<TRUE, FALSE>>
    /\ Len(s_results) = 1

\* C7: a lookup whose response is ok fails with APIError, and with nothing
\* else, when the body has totalResults = 0 or a message saying the
\* vulnerability could not be found, and returns the list parsed from the
\* body in every other case.
C7_LookupNotFound ==
    (s_op = "lookup" /\ s_http = <<TRUE>>) =>
        IF s_data[1].totalResults = 0 \/ s_data[1].message = "Unable to find vuln"
        THEN spc = "failed" /\ s_err = "APIError"
        ELSE spc = "done" /\ s_ret = <<parse_json(s_data[1])>>

\* C8: get_latest returns the earliest stored of the records with the
\* greatest published date, and None for a list without records.
C8_LatestStableMax ==
    q.op = "get_latest" =>
        LET l == heap[objs[1]]
        IN  /\ q.out.kind = "return"
            /\ IF l = <<>> THEN q.out.value = None
               ELSE \E i \in DOMAIN l :
                      /\ q.out.value = l[i]
                      /\ \A j \in DOMAIN l : l[j].published_date <= l[i].published_date
                      /\ \A j \in 1..i - 1 : l[j].published_date < l[i].published_date

SeverityOrder == <<"UNKNOWN", "LOW", "MEDIUM", "HIGH", "CRITICAL">>
Position(label) == CHOOSE n \in DOMAIN SeverityOrder : SeverityOrder[n] = label

\* C9: get_max_severity returns None for a list without records and otherwise
\* the label of the list that is greatest in the order
\* UNKNOWN < LOW < MEDIUM < HIGH < CRITICAL.
C9_MaxSeverity ==
    q.op = "get_max_severity" =>
        LET l == heap[objs[1]]
        IN  /\ q.out.kind = "return"
            /\ IF l = <<>> THEN q.out.value = None
               ELSE /\ \E i \in DOMAIN l : l[i].severity = q.out.value
                    /\ \A i \in DOMAIN l : Position(l[i].severity) <= Position(q.out.value)

\* the list {HIGH, CRITICAL, LOW}, for which CRITICAL is returned
C9_Witness ==
    /\ q.op = "get_max_severity"
    /\ Len(heap[objs[1]]) = 3
    /\ heap[objs[1]][1].severity = "HIGH"
    /\ heap[objs[1]][2].severity = "CRITICAL"
    /\ heap[objs[1]][3].severity = "LOW"
    /\ q.out = Return("CRITICAL")

\* C10: every requests.get is made with the rate limiter entered, and at any
\* moment the requests of the last 60 seconds number at most 100 with an API
\* key and at most 10 without one.
C10_RateBounded ==
    /\ gets = calls
    /\ Cardinality({i \in DOMAIN gets : clock - gets[i] < 60})
         <= (IF api_key # None THEN 100 ELSE 10)

\* a client with a key that has used its 100 requests and is held back in the
\* middle of a search, the clock having advanced since its first request
C10_Witness ==
    /\ api_key # None
    /\ Len(gets) = 100
    /\ gets[1] < clock
    /\ ~gate_open
    /\ spc = "querying"

====
